---- MODULE Spec2Model ----
(***************************************************************************)
(* Model of plugin/cache/cache.go: a filesystem-backed cache with a lock   *)
(* built on exclusive file creation.  Processes are independent OS         *)
(* processes; the only shared state is the filesystem.  Every system call  *)
(* made by the code is one atomic step, so that all interleavings of the   *)
(* existence check, the directory creation, the exclusive create and the   *)
(* remove are explored.                                                    *)
(*                                                                         *)
(* Strings are sequences of one-character strings, so that TrimLeft and    *)
(* HasSuffix are computed character by character as the Go library does.   *)
(* A filesystem path is resolved by the kernel into a sequence of          *)
(* components; the filesystem maps resolved paths to nodes.                *)
(***************************************************************************)
EXTENDS Integers, Sequences, FiniteSets, TLC

(***************************************************************************)
(* Bounds of the model.                                                    *)
(***************************************************************************)
NumProcs == 2
MaxFaults == 1
MaxDelay == 1

Procs == 1..NumProcs

(***************************************************************************)
(* Program constants (cache.go:15-16).                                     *)
(***************************************************************************)
cacheDir == <<"/", "v", "a", "r", "/", "c", "a", "c", "h", "e", "/">>
lockDir == <<"/", "v", "a", "r", "/", "c", "a", "c", "h", "e", "/", "l", "o", "c", "k", "/">>

\* The literal "/lock" of isReservedName (cache.go:115).
reservedSuffix == <<"/", "l", "o", "c", "k">>

(***************************************************************************)
(* String functions of the Go standard library used by the code.           *)
(***************************************************************************)
RECURSIVE TrimLeft(_, _)
TrimLeft(s, c) ==
    IF s # <<>> /\ Head(s) = c THEN TrimLeft(Tail(s), c) ELSE s

HasSuffix(s, suffix) ==
    /\ Len(s) >= Len(suffix)
    /\ SubSeq(s, Len(s) - Len(suffix) + 1, Len(s)) = suffix

\* cache.go:110-112
stripLeftSlash(n) == TrimLeft(n, "/")

\* cache.go:114-119 ; "nil" or the InvalidCacheFileName error
isReservedName(n) ==
    IF HasSuffix(n, reservedSuffix) THEN "InvalidCacheFileName" ELSE "nil"

(***************************************************************************)
(* Kernel path resolution: split at "/", empty components are skipped.     *)
(***************************************************************************)
RECURSIVE SplitFrom(_, _, _)
SplitFrom(s, cur, acc) ==
    IF s = <<>>
    THEN IF cur = <<>> THEN acc ELSE Append(acc, cur)
    ELSE IF Head(s) = "/"
         THEN SplitFrom(Tail(s), <<>>, IF cur = <<>> THEN acc ELSE Append(acc, cur))
         ELSE SplitFrom(Tail(s), Append(cur, Head(s)), acc)

\* filepath.Dir: everything before the last separator, cleaned.
RECURSIVE DropAfterLastSlash(_)
DropAfterLastSlash(s) ==
    IF s = <<>> \/ s[Len(s)] = "/" THEN s ELSE DropAfterLastSlash(SubSeq(s, 1, Len(s) - 1))

(***************************************************************************)
(* The names the processes pass to the API, per specification below.       *)
(***************************************************************************)
LockNames == {<<"a">>, <<"/", "a">>}
FreeNames == {<<"a">>, <<"/", "a">>, <<"b", "/", "l", "o", "c", "k">>}
StoreNames == {<<"a">>, <<"/", "a">>, <<"a", "/", "l", "o", "c", "k">>}
NestNames == {<<"a">>, <<"a", "/", "b">>}
ReservedNames == {<<"a">>, <<"l", "o", "c", "k">>, <<"/", "l", "o", "c", "k">>,
                  <<"x", "/", "l", "o", "c", "k">>}
MixNames == {<<"a">>, <<"l", "o", "c", "k", "/", "a">>}
AllNames ==
    LockNames \cup FreeNames \cup StoreNames \cup NestNames \cup ReservedNames \cup MixNames

\* The path strings these names give rise to.  Their resolution is computed
\* once and looked up afterwards.
PathStrings ==
    {lockDir \o stripLeftSlash(n) : n \in AllNames}
        \cup {cacheDir \o stripLeftSlash(n) : n \in AllNames}

ResolveMemo == [s \in PathStrings |-> SplitFrom(s, <<>>, <<>>)]
DirMemo == [s \in PathStrings |-> SplitFrom(DropAfterLastSlash(s), <<>>, <<>>)]

Resolve(s) ==
    IF s \in PathStrings THEN ResolveMemo[s] ELSE SplitFrom(s, <<>>, <<>>)

Dir(s) ==
    IF s \in PathStrings THEN DirMemo[s] ELSE SplitFrom(DropAfterLastSlash(s), <<>>, <<>>)

Prefixes(p) == {SubSeq(p, 1, i) : i \in 0..Len(p)}
ProperPrefixes(p) == {SubSeq(p, 1, i) : i \in 0..(Len(p) - 1)}


(***************************************************************************)
(* The filesystem: a function from resolved paths to nodes.  The field     *)
(* "by" is history only: the process whose system call created the node.   *)
(***************************************************************************)
VARIABLES
    fs,        \* the filesystem, shared by all processes
    faults,    \* number of injected filesystem faults (EIO) so far
    pc,        \* per process: the statement it is at
    op,        \* per process: the API function it is executing
    name,      \* per process: the name argument of the call
    path,      \* per process: the concatenated path (the local `name`)
    flags,     \* per process: the flags argument of open
    ok,        \* per process: the local `ok`
    err,       \* per process: the local `err`
    f,         \* per process: the local *os.File
    timeout,   \* per process: the timeout argument of UnlockCacheFile
    ret,       \* per process: what its last call returned
    handle,    \* per process: the *os.File it got from OpenCacheFile and has not closed
    got,       \* per process: the bytes its last ReadAll returned
    holds,     \* per process: markers it acquired and has not itself removed (history)
    lastPut    \* per process: its last Open -> Write(b) -> Close, while undisturbed (history)

vars == <<fs, faults, pc, op, name, path, flags, ok, err, f, timeout, ret, handle, got,
          holds, lastPut>>

\* what the caller of the API keeps between calls
client == <<handle, got, lastPut>>

DirNode == [kind |-> "dir", data |-> <<>>, by |-> 0]
FileNode(d, p) == [kind |-> "file", data |-> d, by |-> p]

Exists(p) == p \in DOMAIN fs
IsFile(p) == Exists(p) /\ fs[p].kind = "file"
IsDir(p) == Exists(p) /\ fs[p].kind = "dir"

\* stat(2): nil, ENOENT, or ENOTDIR when a component of the prefix is a regular file
StatErr(p) ==
    IF Exists(p) THEN "nil"
    ELSE IF \E q \in ProperPrefixes(p) : IsFile(q) THEN "ENOTDIR"
    ELSE "ENOENT"

\* os.MkdirAll
MkdirAllErr(p) ==
    IF \E q \in Prefixes(p) : IsFile(q) THEN "ENOTDIR" ELSE "nil"

MkdirAllFs(p) ==
    [q \in DOMAIN fs \cup Prefixes(p) |-> IF q \in DOMAIN fs THEN fs[q] ELSE DirNode]

\* os.OpenFile(name, O_RDWR|O_CREATE[|O_EXCL], perm)
OpenFileErr(p, fl) ==
    IF Exists(p)
    THEN IF fl = "O_RDWR|O_CREATE|O_EXCL" THEN "EEXIST"
         ELSE IF IsDir(p) THEN "EISDIR" ELSE "nil"
    ELSE IF p = <<>> THEN "EISDIR"
    ELSE IF IsDir(SubSeq(p, 1, Len(p) - 1)) THEN "nil"
    ELSE StatErr(SubSeq(p, 1, Len(p) - 1))

OpenFileFs(p, who) ==
    IF Exists(p) THEN fs ELSE (p :> FileNode(<<>>, who)) @@ fs

\* os.Remove: unlink, or rmdir of an empty directory
HasChildren(p) ==
    \E q \in DOMAIN fs : Len(q) = Len(p) + 1 /\ SubSeq(q, 1, Len(p)) = p

\* Mutant: removing what is not there counts as done (rm -f).
RemoveErr_missingIsNil(p) ==
    IF ~Exists(p) THEN "nil"
    ELSE IF p = <<>> THEN "EBUSY"
    ELSE IF IsDir(p) /\ HasChildren(p) THEN "ENOTEMPTY"
    ELSE "nil"

RemoveErr(p) ==
    IF ~Exists(p) THEN StatErr(p)
    ELSE IF p = <<>> THEN "EBUSY"
    ELSE IF IsDir(p) /\ HasChildren(p) THEN "ENOTEMPTY"
    ELSE "nil"

\* Mutant: the remove reports success and leaves the file in place.
RemoveFs_keeps(p) == fs

RemoveFs(p) == [q \in DOMAIN fs \ {p} |-> fs[q]]

\* os.IsNotExist / os.IsExist
IsNotExist(e) == e = "ENOENT"
IsExist(e) == e \in {"EEXIST", "ENOTEMPTY"}

\* A system call may also fail with an I/O fault, while the fault budget lasts.
Faulty == IF faults < MaxFaults THEN {"EIO"} ELSE {}
Count(e) == faults' = IF e = "EIO" THEN faults + 1 ELSE faults

\* An open file: the path it was opened at and its offset.  When the file is
\* removed while open, the handle keeps the unlinked file (its bytes in data).
NoFile == [open |-> FALSE, path |-> <<>>, off |-> 0, unlinked |-> FALSE, data |-> <<>>]
File(p) == [open |-> TRUE, path |-> p, off |-> 0, unlinked |-> FALSE, data |-> <<>>]
NoPut == [valid |-> FALSE, closed |-> FALSE, path |-> <<>>, data |-> <<>>, prior |-> 0]
NoTimeout == [isNil |-> TRUE, d |-> 0]
NoRet == [op |-> "none", ok |-> FALSE, err |-> "nil"]

\* The marker file of a lock name (cache.go:59, cache.go:103) and the file of
\* a cache entry (cache.go:36, 46, 51), as the kernel resolves them.
LockPath(n) == lockDir \o stripLeftSlash(n)
CachePath(n) == cacheDir \o stripLeftSlash(n)
Marker(n) == Resolve(LockPath(n))
Entry(n) == Resolve(CachePath(n))

\* Removing the file at path m unlinks it under every handle open on it.
Unlinked(m) ==
    [q \in Procs |->
        IF handle[q].open /\ ~handle[q].unlinked /\ handle[q].path = m /\ IsFile(m)
        THEN [handle[q] EXCEPT !.unlinked = TRUE, !.data = fs[m].data]
        ELSE handle[q]]

\* A change of the file at path m ends every record of an undisturbed
\* Open -> Write -> Close on m.
Disturbed(m) ==
    [q \in Procs |-> IF lastPut[q].path = m THEN NoPut ELSE lastPut[q]]

(***************************************************************************)
(* Returning from an API function to the caller: the locals die.           *)
(***************************************************************************)
Return(p, o, b, e) ==
    /\ pc' = [pc EXCEPT ![p] = "idle"]
    /\ ret' = [ret EXCEPT ![p] = [op |-> o, ok |-> b, err |-> e]]
    /\ op' = [op EXCEPT ![p] = "none"]
    /\ name' = [name EXCEPT ![p] = <<>>]
    /\ path' = [path EXCEPT ![p] = <<>>]
    /\ flags' = [flags EXCEPT ![p] = "none"]
    /\ ok' = [ok EXCEPT ![p] = FALSE]
    /\ err' = [err EXCEPT ![p] = "nil"]
    /\ f' = [f EXCEPT ![p] = NoFile]
    /\ timeout' = [timeout EXCEPT ![p] = NoTimeout]

(***************************************************************************)
(* A step inside an API function: the process moves to statement l with    *)
(* the given values of its locals.                                         *)
(***************************************************************************)
Step(p, l, okv, errv, h) ==
    /\ pc' = [pc EXCEPT ![p] = l]
    /\ ok' = [ok EXCEPT ![p] = okv]
    /\ err' = [err EXCEPT ![p] = errv]
    /\ f' = [f EXCEPT ![p] = h]
    /\ UNCHANGED <<op, name, path, flags, timeout, ret>>

\* Mutant: the outcome is collapsed to a boolean, every failure meaning "absent".
doesExist_boolOnly(e) ==
    [ok |-> e = "nil", err |-> "nil"]

\* cache.go:125-133, applied to the error e of its os.Stat
doesExist(e) ==
    [ok |-> e = "nil", err |-> IF e = "nil" \/ IsNotExist(e) THEN "nil" ELSE e]

\* Mutant: the lock is created without O_EXCL.
openExclusiveFileFlags_noExcl == "O_RDWR|O_CREATE"

\* cache.go:135-141
openFileFlags == "O_RDWR|O_CREATE"
openExclusiveFileFlags == "O_RDWR|O_CREATE|O_EXCL"

(***************************************************************************)
(* LockCacheFile (cache.go:58-89)                                          *)
(***************************************************************************)
\* cache.go:58-61: the call, and the concatenation of the path
CallLock(p, n) ==
    /\ pc[p] = "idle"
    /\ pc' = [pc EXCEPT ![p] = "lock_check"]
    /\ op' = [op EXCEPT ![p] = "LockCacheFile"]
    /\ name' = [name EXCEPT ![p] = n]
    /\ path' = [path EXCEPT ![p] = LockPath(n)]
    /\ ret' = [ret EXCEPT ![p] = NoRet]
    /\ UNCHANGED <<fs, faults, flags, ok, err, f, timeout, holds, client>>

\* Mutant: an existing marker is taken for an acquired lock.
LockCheck_existingIsSuccess(p) ==
    /\ pc[p] = "lock_check"
    /\ \E e \in {StatErr(Resolve(path[p]))} \cup Faulty :
        LET r == doesExist(e) IN
        /\ Count(e)
        /\ IF r.ok /\ r.err = "nil"
           THEN Return(p, "LockCacheFile", TRUE, "nil")
           ELSE IF r.err # "nil"
           THEN Return(p, "LockCacheFile", FALSE, r.err)
           ELSE /\ pc' = [pc EXCEPT ![p] = "open_stat"]
                /\ flags' = [flags EXCEPT ![p] = openExclusiveFileFlags]
                /\ ok' = [ok EXCEPT ![p] = r.ok]
                /\ err' = [err EXCEPT ![p] = r.err]
                /\ UNCHANGED <<op, name, path, f, timeout, ret>>
    /\ UNCHANGED <<fs, holds, client>>

\* Mutant: an error of the existence check is retried like contention.
LockCheck_retriesOnError(p) ==
    /\ pc[p] = "lock_check"
    /\ \E e \in {StatErr(Resolve(path[p]))} \cup Faulty :
        LET r == doesExist(e) IN
        /\ Count(e)
        /\ IF (r.ok /\ r.err = "nil") \/ r.err # "nil"
           THEN Step(p, "lock_sleep", r.ok, r.err, NoFile)
           ELSE /\ pc' = [pc EXCEPT ![p] = "open_stat"]
                /\ flags' = [flags EXCEPT ![p] = openExclusiveFileFlags]
                /\ ok' = [ok EXCEPT ![p] = r.ok]
                /\ err' = [err EXCEPT ![p] = r.err]
                /\ UNCHANGED <<op, name, path, f, timeout, ret>>
    /\ UNCHANGED <<fs, holds, client>>

\* cache.go:64-75: the existence check at the top of the loop
LockCheck(p) ==
    /\ pc[p] = "lock_check"
    /\ \E e \in {StatErr(Resolve(path[p]))} \cup Faulty :
        LET r == doesExist(e) IN
        /\ Count(e)
        /\ IF r.ok /\ r.err = "nil"
           THEN Step(p, "lock_sleep", r.ok, r.err, NoFile)
           ELSE IF r.err # "nil"
           THEN Return(p, "LockCacheFile", FALSE, r.err)
           ELSE /\ pc' = [pc EXCEPT ![p] = "open_stat"]
                /\ flags' = [flags EXCEPT ![p] = openExclusiveFileFlags]
                /\ ok' = [ok EXCEPT ![p] = r.ok]
                /\ err' = [err EXCEPT ![p] = r.err]
                /\ UNCHANGED <<op, name, path, f, timeout, ret>>
    /\ UNCHANGED <<fs, holds, client>>

\* Mutant: the nap never ends.
LockSleep_forever(p) ==
    /\ pc[p] = "lock_sleep"
    /\ UNCHANGED vars

\* Mutant: after the nap the waiter breaks the lock it found.
LockSleep_breaksLock(p) ==
    /\ pc[p] = "lock_sleep"
    /\ Step(p, "lock_check", ok[p], err[p], NoFile)
    /\ fs' = IF Exists(Resolve(path[p])) THEN RemoveFs(Resolve(path[p])) ELSE fs
    /\ UNCHANGED <<faults, holds, client>>

\* cache.go:66-67: the nap, then back to the top of the loop
LockSleep(p) ==
    /\ pc[p] = "lock_sleep"
    /\ Step(p, "lock_check", ok[p], err[p], NoFile)
    /\ UNCHANGED <<fs, faults, holds, client>>

\* Mutant: LockCacheFile leaves its loop when the create fails with "exists".
OpenReturns_breakOnExist(p, h, e) ==
    IF op[p] = "LockCacheFile"
    THEN /\ IF e # "nil" /\ ~IsExist(e)
            THEN Return(p, "LockCacheFile", FALSE, e)
            ELSE Step(p, "lock_close", ok[p], e, h)
         /\ UNCHANGED handle
    ELSE /\ Return(p, "OpenCacheFile", e = "nil", e)
         /\ handle' = [handle EXCEPT ![p] = h]

\* Mutant: a lost create race is reported to the caller of LockCacheFile.
OpenReturns_surfacesExist(p, h, e) ==
    IF op[p] = "LockCacheFile"
    THEN /\ IF e # "nil"
            THEN Return(p, "LockCacheFile", FALSE, e)
            ELSE Step(p, "lock_close", ok[p], e, h)
         /\ UNCHANGED handle
    ELSE /\ Return(p, "OpenCacheFile", e = "nil", e)
         /\ handle' = [handle EXCEPT ![p] = h]

(***************************************************************************)
(* open (cache.go:143-159), and what its caller does with the result:      *)
(* LockCacheFile at cache.go:75-85, OpenCacheFile at cache.go:36.          *)
(***************************************************************************)
OpenReturns(p, h, e) ==
    IF op[p] = "LockCacheFile"
    THEN /\ IF e # "nil"
            THEN IF IsExist(e)
                 THEN Step(p, "lock_check", ok[p], e, NoFile)
                 ELSE Return(p, "LockCacheFile", FALSE, e)
            ELSE Step(p, "lock_close", ok[p], e, h)
         /\ UNCHANGED handle
    ELSE /\ Return(p, "OpenCacheFile", e = "nil", e)
         /\ handle' = [handle EXCEPT ![p] = h]

\* cache.go:144
OpenStat(p) ==
    /\ pc[p] = "open_stat"
    /\ \E e \in {StatErr(Resolve(path[p]))} \cup Faulty :
        /\ Count(e)
        /\ IF e # "nil"
           THEN Step(p, "open_exist", ok[p], e, NoFile)
           ELSE Step(p, "open_file", ok[p], e, NoFile)
    /\ UNCHANGED <<fs, holds, client>>

\* cache.go:147, 153-155
OpenDoesExist(p) ==
    /\ pc[p] = "open_exist"
    /\ \E e \in {StatErr(Resolve(path[p]))} \cup Faulty :
        LET r == doesExist(e) IN
        /\ Count(e)
        /\ IF ~r.ok /\ r.err = "nil"
           THEN Step(p, "open_mkdir", r.ok, r.err, NoFile) /\ UNCHANGED handle
           ELSE IF r.err # "nil"
           THEN OpenReturns(p, NoFile, r.err)
           ELSE Step(p, "open_file", r.ok, r.err, NoFile) /\ UNCHANGED handle
    /\ UNCHANGED <<fs, holds, got, lastPut>>

\* cache.go:149-155
OpenMkdirAll(p) ==
    /\ pc[p] = "open_mkdir"
    /\ \E e \in {MkdirAllErr(Dir(path[p]))} \cup Faulty :
        /\ Count(e)
        /\ fs' = IF e = "nil" THEN MkdirAllFs(Dir(path[p])) ELSE fs
        /\ IF e # "nil"
           THEN OpenReturns(p, NoFile, e)
           ELSE Step(p, "open_file", ok[p], e, NoFile) /\ UNCHANGED handle
    /\ UNCHANGED <<holds, got, lastPut>>

\* cache.go:158
OpenOpenFile(p) ==
    /\ pc[p] = "open_file"
    /\ \E e \in {OpenFileErr(Resolve(path[p]), flags[p])} \cup Faulty :
        /\ Count(e)
        /\ fs' = IF e = "nil" THEN OpenFileFs(Resolve(path[p]), p) ELSE fs
        /\ OpenReturns(p, IF e = "nil" THEN File(Resolve(path[p])) ELSE NoFile, e)
    /\ UNCHANGED <<holds, got, lastPut>>

\* cache.go:84-88: close the handle and return success
LockClose(p) ==
    /\ pc[p] = "lock_close"
    /\ Return(p, "LockCacheFile", TRUE, "nil")
    /\ holds' = [holds EXCEPT ![p] = @ \cup {Resolve(path[p])}]
    /\ UNCHANGED <<fs, faults, client>>

(***************************************************************************)
(* UnlockCacheFile (cache.go:97-107)                                       *)
(***************************************************************************)
Timeouts == {NoTimeout} \cup {[isNil |-> FALSE, d |-> k] : k \in 1..MaxDelay}

\* cache.go:97-100
CallUnlock(p, n, t) ==
    /\ pc[p] = "idle"
    /\ pc' = [pc EXCEPT ![p] = IF t.isNil THEN "unlock_remove" ELSE "unlock_sleep"]
    /\ op' = [op EXCEPT ![p] = "UnlockCacheFile"]
    /\ name' = [name EXCEPT ![p] = n]
    /\ path' = [path EXCEPT ![p] = LockPath(n)]
    /\ timeout' = [timeout EXCEPT ![p] = t]
    /\ ret' = [ret EXCEPT ![p] = NoRet]
    /\ UNCHANGED <<fs, faults, flags, ok, err, f, holds, client>>

\* Mutant: the marker is removed before the sleep instead of after it.
UnlockSleep_removesFirst(p) ==
    /\ pc[p] = "unlock_sleep"
    /\ fs' = IF Exists(Resolve(path[p])) THEN RemoveFs(Resolve(path[p])) ELSE fs
    /\ IF timeout[p].d > 1
       THEN /\ timeout' = [timeout EXCEPT ![p].d = @ - 1]
            /\ UNCHANGED pc
       ELSE /\ timeout' = [timeout EXCEPT ![p].d = 0]
            /\ pc' = [pc EXCEPT ![p] = "unlock_remove"]
    /\ UNCHANGED <<faults, op, name, path, flags, ok, err, f, ret, holds, client>>

\* cache.go:101: the sleep, one unit of time per step
UnlockSleep(p) ==
    /\ pc[p] = "unlock_sleep"
    /\ IF timeout[p].d > 1
       THEN /\ timeout' = [timeout EXCEPT ![p].d = @ - 1]
            /\ UNCHANGED pc
       ELSE /\ timeout' = [timeout EXCEPT ![p].d = 0]
            /\ pc' = [pc EXCEPT ![p] = "unlock_remove"]
    /\ UNCHANGED <<fs, faults, op, name, path, flags, ok, err, f, ret, holds, client>>

\* Mutant: the error of os.Remove is dropped.
UnlockRemove_swallowsError(p) ==
    /\ pc[p] = "unlock_remove"
    /\ \E e \in {RemoveErr(Resolve(path[p]))} \cup Faulty :
        /\ Count(e)
        /\ fs' = IF e = "nil" THEN RemoveFs(Resolve(path[p])) ELSE fs
        /\ holds' = [holds EXCEPT ![p] = @ \ {Resolve(path[p])}]
        /\ handle' = IF e = "nil" THEN Unlinked(Resolve(path[p])) ELSE handle
        /\ lastPut' = IF e = "nil" THEN Disturbed(Resolve(path[p])) ELSE lastPut
        /\ Return(p, "UnlockCacheFile", TRUE, "nil")
    /\ UNCHANGED got

\* Mutant: only the process that created the marker may remove it.
UnlockRemove_ownerOnly(p) ==
    /\ pc[p] = "unlock_remove"
    /\ \E e \in {IF Exists(Resolve(path[p])) /\ fs[Resolve(path[p])].by # p
                  THEN "EPERM" ELSE RemoveErr(Resolve(path[p]))} \cup Faulty :
        /\ Count(e)
        /\ fs' = IF e = "nil" THEN RemoveFs(Resolve(path[p])) ELSE fs
        /\ holds' = IF e = "nil"
                    THEN [holds EXCEPT ![p] = @ \ {Resolve(path[p])}]
                    ELSE holds
        /\ handle' = IF e = "nil" THEN Unlinked(Resolve(path[p])) ELSE handle
        /\ lastPut' = IF e = "nil" THEN Disturbed(Resolve(path[p])) ELSE lastPut
        /\ Return(p, "UnlockCacheFile", e = "nil", e)
    /\ UNCHANGED got

\* cache.go:103-106
UnlockRemove(p) ==
    /\ pc[p] = "unlock_remove"
    /\ \E e \in {RemoveErr(Resolve(path[p]))} \cup Faulty :
        /\ Count(e)
        /\ fs' = IF e = "nil" THEN RemoveFs(Resolve(path[p])) ELSE fs
        /\ holds' = IF e = "nil"
                    THEN [holds EXCEPT ![p] = @ \ {Resolve(path[p])}]
                    ELSE holds
        /\ handle' = IF e = "nil" THEN Unlinked(Resolve(path[p])) ELSE handle
        /\ lastPut' = IF e = "nil" THEN Disturbed(Resolve(path[p])) ELSE lastPut
        /\ Return(p, "UnlockCacheFile", e = "nil", e)
    /\ UNCHANGED got

(***************************************************************************)
(* The cache entry store (cache.go:31-52)                                  *)
(***************************************************************************)
\* cache.go:31: the call.  The caller holds at most one open cache file at a time.
CallOpen(p, n) ==
    /\ pc[p] = "idle"
    /\ ~handle[p].open
    /\ pc' = [pc EXCEPT ![p] = "open_reserved"]
    /\ op' = [op EXCEPT ![p] = "OpenCacheFile"]
    /\ name' = [name EXCEPT ![p] = n]
    /\ ret' = [ret EXCEPT ![p] = NoRet]
    /\ UNCHANGED <<fs, faults, path, flags, ok, err, f, timeout, holds, client>>

\* cache.go:32-36: the reserved-name check, then the path and the flags
OpenReserved(p) ==
    /\ pc[p] = "open_reserved"
    /\ IF isReservedName(name[p]) # "nil"
       THEN Return(p, "OpenCacheFile", FALSE, isReservedName(name[p]))
       ELSE /\ pc' = [pc EXCEPT ![p] = "open_stat"]
            /\ path' = [path EXCEPT ![p] = CachePath(name[p])]
            /\ flags' = [flags EXCEPT ![p] = openFileFlags]
            /\ UNCHANGED <<op, name, ok, err, f, timeout, ret>>
    /\ UNCHANGED <<fs, faults, holds, client>>

\* cache.go:41: the call
CallRemove(p, n) ==
    /\ pc[p] = "idle"
    /\ pc' = [pc EXCEPT ![p] = "remove_reserved"]
    /\ op' = [op EXCEPT ![p] = "RemoveCacheFile"]
    /\ name' = [name EXCEPT ![p] = n]
    /\ ret' = [ret EXCEPT ![p] = NoRet]
    /\ UNCHANGED <<fs, faults, path, flags, ok, err, f, timeout, holds, client>>

\* cache.go:42-46: the reserved-name check, then the path
RemoveReserved(p) ==
    /\ pc[p] = "remove_reserved"
    /\ IF isReservedName(name[p]) # "nil"
       THEN Return(p, "RemoveCacheFile", FALSE, isReservedName(name[p]))
       ELSE /\ pc' = [pc EXCEPT ![p] = "remove_file"]
            /\ path' = [path EXCEPT ![p] = CachePath(name[p])]
            /\ UNCHANGED <<op, name, flags, ok, err, f, timeout, ret>>
    /\ UNCHANGED <<fs, faults, holds, client>>

\* cache.go:46
RemoveFile(p) ==
    /\ pc[p] = "remove_file"
    /\ \E e \in {RemoveErr(Resolve(path[p]))} \cup Faulty :
        /\ Count(e)
        /\ fs' = IF e = "nil" THEN RemoveFs(Resolve(path[p])) ELSE fs
        /\ handle' = IF e = "nil" THEN Unlinked(Resolve(path[p])) ELSE handle
        /\ lastPut' = IF e = "nil" THEN Disturbed(Resolve(path[p])) ELSE lastPut
        /\ Return(p, "RemoveCacheFile", e = "nil", e)
    /\ UNCHANGED <<got, holds>>

\* cache.go:50-51: no reserved-name check here
CallCheck(p, n) ==
    /\ pc[p] = "idle"
    /\ pc' = [pc EXCEPT ![p] = "check_stat"]
    /\ op' = [op EXCEPT ![p] = "CheckCacheFile"]
    /\ name' = [name EXCEPT ![p] = n]
    /\ path' = [path EXCEPT ![p] = CachePath(n)]
    /\ ret' = [ret EXCEPT ![p] = NoRet]
    /\ UNCHANGED <<fs, faults, flags, ok, err, f, timeout, holds, client>>

\* cache.go:51, 125-133
CheckStat(p) ==
    /\ pc[p] = "check_stat"
    /\ \E e \in {StatErr(Resolve(path[p]))} \cup Faulty :
        /\ Count(e)
        /\ Return(p, "CheckCacheFile", doesExist(e).ok, doesExist(e).err)
    /\ UNCHANGED <<fs, holds, client>>

(***************************************************************************)
(* What the caller does with the *os.File of OpenCacheFile, as in          *)
(* TestFileOpenReadWrite (trigger.go:38-53): Write, Close, ReadAll.        *)
(* The file was opened O_RDWR without O_TRUNC or O_APPEND: a write         *)
(* replaces the bytes at the handle's offset and keeps the rest.           *)
(***************************************************************************)
MaxFileLen == 2

Payloads == {<<"x">>, <<"y", "z">>}

\* Mutant: the write goes to the end of the file (O_APPEND).
WriteAt_append(d, off, b) == d \o b

WriteAt(d, off, b) ==
    SubSeq(d, 1, off) \o b \o SubSeq(d, off + Len(b) + 1, Len(d))

Content(p) ==
    IF handle[p].unlinked THEN handle[p].data ELSE fs[handle[p].path].data

Write(p, b) ==
    /\ pc[p] = "idle"
    /\ handle[p].open
    /\ Len(WriteAt(Content(p), handle[p].off, b)) <= MaxFileLen
    /\ IF handle[p].unlinked
       THEN /\ handle' = [handle EXCEPT ![p].data = WriteAt(@, handle[p].off, b),
                                        ![p].off = @ + Len(b)]
            /\ lastPut' = [lastPut EXCEPT ![p] = NoPut]
            /\ UNCHANGED fs
       ELSE /\ fs' = [fs EXCEPT ![handle[p].path].data = WriteAt(@, handle[p].off, b)]
            /\ handle' = [handle EXCEPT ![p].off = @ + Len(b)]
            /\ lastPut' = [q \in Procs |->
                  IF q = p
                  THEN IF handle[p].off = 0
                       THEN [valid |-> TRUE, closed |-> FALSE, path |-> handle[p].path,
                             data |-> b, prior |-> Len(fs[handle[p].path].data)]
                       ELSE NoPut
                  ELSE Disturbed(handle[p].path)[q]]
    /\ ret' = [ret EXCEPT ![p] = [op |-> "Write", ok |-> TRUE, err |-> "nil"]]
    /\ UNCHANGED <<faults, pc, op, name, path, flags, ok, err, f, timeout, got, holds>>

Close(p) ==
    /\ pc[p] = "idle"
    /\ handle[p].open
    /\ handle' = [handle EXCEPT ![p] = NoFile]
    /\ lastPut' = [lastPut EXCEPT ![p] = IF @.valid THEN [@ EXCEPT !.closed = TRUE] ELSE @]
    /\ ret' = [ret EXCEPT ![p] = [op |-> "Close", ok |-> TRUE, err |-> "nil"]]
    /\ UNCHANGED <<fs, faults, pc, op, name, path, flags, ok, err, f, timeout, got, holds>>

ReadAll(p) ==
    /\ pc[p] = "idle"
    /\ handle[p].open
    /\ got' = [got EXCEPT ![p] = SubSeq(Content(p), handle[p].off + 1, Len(Content(p)))]
    /\ handle' = [handle EXCEPT ![p].off = Len(Content(p))]
    /\ ret' = [ret EXCEPT ![p] = [op |-> "ReadAll", ok |-> TRUE, err |-> "nil"]]
    /\ UNCHANGED <<fs, faults, pc, op, name, path, flags, ok, err, f, timeout, holds, lastPut>>

(***************************************************************************)
(* The initial state: an empty filesystem, every process idle.             *)
(***************************************************************************)
InitLocals ==
    /\ pc = [p \in Procs |-> "idle"]
    /\ op = [p \in Procs |-> "none"]
    /\ name = [p \in Procs |-> <<>>]
    /\ path = [p \in Procs |-> <<>>]
    /\ flags = [p \in Procs |-> "none"]
    /\ ok = [p \in Procs |-> FALSE]
    /\ err = [p \in Procs |-> "nil"]
    /\ f = [p \in Procs |-> NoFile]
    /\ timeout = [p \in Procs |-> NoTimeout]
    /\ ret = [p \in Procs |-> NoRet]
    /\ handle = [p \in Procs |-> NoFile]
    /\ got = [p \in Procs |-> <<>>]
    /\ holds = [p \in Procs |-> {}]
    /\ lastPut = [p \in Procs |-> NoPut]

Init ==
    /\ fs = (<<>> :> DirNode)
    /\ faults = 0
    /\ InitLocals

(***************************************************************************)
(* Spec: processes that each run LockCacheFile(n) -> critical section ->   *)
(* UnlockCacheFile(n) on one lock, spelled with or without a leading       *)
(* slash.                                                                  *)
(***************************************************************************)
Acquire(p, n) == holds[p] = {} /\ CallLock(p, n)
Release(p, n, t) == Marker(n) \in holds[p] /\ CallUnlock(p, n, t)

Internal(p) ==
    \/ LockCheck(p)
    \/ LockSleep(p)
    \/ OpenStat(p)
    \/ OpenDoesExist(p)
    \/ OpenMkdirAll(p)
    \/ OpenOpenFile(p)
    \/ LockClose(p)
    \/ UnlockSleep(p)
    \/ UnlockRemove(p)

Next ==
    \E p \in Procs :
        \/ \E n \in LockNames : Acquire(p, n)
        \/ \E n \in LockNames, t \in Timeouts : Release(p, n, t)
        \/ Internal(p)

Spec == Init /\ [][Next]_vars

(***************************************************************************)
(* FairSpec: the same processes without filesystem faults.  Every process  *)
(* keeps taking the steps of the call it is in, and a process that holds   *)
(* the lock eventually calls UnlockCacheFile.  Nobody is obliged to call   *)
(* LockCacheFile.                                                          *)
(***************************************************************************)
InitNoFault ==
    /\ fs = (<<>> :> DirNode)
    /\ faults = MaxFaults
    /\ InitLocals

Fairness ==
    \A p \in Procs :
        /\ WF_vars(Internal(p))
        /\ WF_vars(\E n \in LockNames, t \in Timeouts : Release(p, n, t))

FairSpec == InitNoFault /\ [][Next]_vars /\ Fairness

(***************************************************************************)
(* FreeSpec: two processes call LockCacheFile and UnlockCacheFile in any   *)
(* order and with any name: a release without an acquisition, a double     *)
(* release, a name that ends in "/lock".  No marker path lies below        *)
(* another one.                                                            *)
(***************************************************************************)
FreeCallers == {1, 2}

FreeNext ==
    \E p \in FreeCallers :
        \/ \E n \in FreeNames : CallLock(p, n)
        \/ \E n \in FreeNames, t \in Timeouts : CallUnlock(p, n, t)
        \/ Internal(p)

FreeSpec == Init /\ [][FreeNext]_vars

(***************************************************************************)
(* StoreSpec: one process uses the cache entry store, and reads and writes  *)
(* the files it opened.                                                    *)
(***************************************************************************)
StoreInternal(p) ==
    \/ OpenReserved(p)
    \/ RemoveReserved(p)
    \/ OpenStat(p)
    \/ OpenDoesExist(p)
    \/ OpenMkdirAll(p)
    \/ OpenOpenFile(p)
    \/ RemoveFile(p)
    \/ CheckStat(p)

StoreClients == {1}

StoreNext ==
    \E p \in StoreClients :
        \/ \E n \in StoreNames : CallOpen(p, n)
        \/ \E n \in StoreNames : CallRemove(p, n)
        \/ \E n \in StoreNames : CallCheck(p, n)
        \/ \E b \in Payloads : Write(p, b)
        \/ ReadAll(p)
        \/ Close(p)
        \/ StoreInternal(p)

StoreSpec == Init /\ [][StoreNext]_vars

(***************************************************************************)
(* ReservedSpec: one process calls the entry store with names whose final  *)
(* path segment is "lock", spelled with and without a directory part and   *)
(* a leading slash, and with an ordinary name.                             *)
(***************************************************************************)
ReservedNext ==
    \E p \in StoreClients :
        \/ \E n \in ReservedNames : CallOpen(p, n)
        \/ \E n \in ReservedNames : CallRemove(p, n)
        \/ \E n \in ReservedNames : CallCheck(p, n)
        \/ Close(p)
        \/ StoreInternal(p)

ReservedSpec == Init /\ [][ReservedNext]_vars

(***************************************************************************)
(* MixSpec: one process uses the entry store, with an ordinary name and    *)
(* with a name below "lock/", while another runs LockCacheFile ->          *)
(* critical section -> UnlockCacheFile.                                    *)
(***************************************************************************)
MixClients == {1}
MixLockers == {2}

MixNext ==
    \/ \E p \in MixClients :
          \/ \E n \in MixNames : CallOpen(p, n)
          \/ \E n \in MixNames : CallRemove(p, n)
          \/ \E n \in MixNames : CallCheck(p, n)
          \/ Close(p)
          \/ StoreInternal(p)
    \/ \E p \in MixLockers :
          \/ \E n \in LockNames : Acquire(p, n)
          \/ \E n \in LockNames, t \in Timeouts : Release(p, n, t)
          \/ Internal(p)

MixSpec == Init /\ [][MixNext]_vars

(***************************************************************************)
(* NestSpec: processes that each run LockCacheFile(n) -> critical section  *)
(* -> UnlockCacheFile(n) on two locks, the name of one being a path prefix *)
(* of the name of the other.  No filesystem faults; every process keeps    *)
(* taking the steps of the call it is in, and a holder eventually calls    *)
(* UnlockCacheFile.                                                        *)
(***************************************************************************)
NestNext ==
    \E p \in Procs :
        \/ \E n \in NestNames : Acquire(p, n)
        \/ \E n \in NestNames, t \in Timeouts : Release(p, n, t)
        \/ Internal(p)

NestFairness ==
    \A p \in Procs :
        /\ WF_vars(Internal(p))
        /\ WF_vars(\E n \in NestNames, t \in Timeouts : Release(p, n, t))

NestSpec == InitNoFault /\ [][NestNext]_vars /\ NestFairness

(***************************************************************************)
(* Vocabulary of the claims.                                               *)
(***************************************************************************)
LockPcs == {"lock_check", "lock_sleep", "open_stat", "open_exist", "open_mkdir",
            "open_file", "lock_close"}

\* p is inside an invocation of LockCacheFile
InLock(p) == op[p] = "LockCacheFile" /\ pc[p] \in LockPcs

\* the marker p's current call is about
MyMarker(p) == Resolve(path[p])

\* this step is p's LockCacheFile returning (true, nil)
LockSucceeds(p) ==
    /\ pc[p] = "lock_close"
    /\ pc'[p] = "idle"
    /\ ret'[p] = [op |-> "LockCacheFile", ok |-> TRUE, err |-> "nil"]

\* p is in its critical section on marker m: LockCacheFile returned success
\* and p's own UnlockCacheFile has not yet removed the marker
InCritical(p, m) == m \in holds[p]

Markers == {Marker(n) : n \in LockNames}

(***************************************************************************)
(* C1. Mutual exclusion: in every reachable state at most one process is   *)
(* between a successful return of LockCacheFile(name) and the removal of   *)
(* the marker by its own UnlockCacheFile(name).                            *)
(***************************************************************************)
C1_MutualExclusion ==
    \A m \in Markers : Cardinality({p \in Procs : InCritical(p, m)}) <= 1

\* One process is in its critical section while another, having seen the
\* marker absent, is about to attempt the exclusive create.
C1_Witness ==
    \E p, q \in Procs :
        /\ p # q
        /\ InCritical(p, Marker(<<"a">>))
        /\ InLock(q) /\ pc[q] = "open_file" /\ MyMarker(q) = Marker(<<"a">>)

(***************************************************************************)
(* C2. Ordering of contenders: a LockCacheFile(name) returns success only  *)
(* in a step in which no other process is between its own successful       *)
(* return and its marker removal; so of two contenders one returns first   *)
(* and the other only after the first's UnlockCacheFile removed the marker.*)
(***************************************************************************)
C2_SecondWaitsForRelease ==
    [][\A q \in Procs :
          LockSucceeds(q) =>
              /\ \A p \in Procs \ {q} : ~InCritical(p, MyMarker(q))
              /\ \A p \in Procs \ {q} : ~LockSucceeds(p)]_vars

\* The second contender has acquired after the first one's release.
C2_Witness ==
    \E p, q \in Procs :
        /\ p # q
        /\ ret[p] = [op |-> "UnlockCacheFile", ok |-> TRUE, err |-> "nil"]
        /\ ret[q] = [op |-> "LockCacheFile", ok |-> TRUE, err |-> "nil"]
        /\ InCritical(q, Marker(<<"a">>))
        /\ fs[Marker(<<"a">>)].by = q

(***************************************************************************)
(* C5. No false success: LockCacheFile returns (true, nil) only when its   *)
(* own exclusive create succeeded in this invocation (it holds the handle  *)
(* the create returned); at that moment the marker exists and is the one   *)
(* this process created.                                                   *)
(***************************************************************************)
C5_NoFalseSuccess ==
    [][\A p \in Procs :
          (InLock(p) /\ pc'[p] = "idle" /\ ret'[p].ok) =>
              /\ f[p] = File(MyMarker(p))
              /\ flags[p] = "O_RDWR|O_CREATE|O_EXCL"
              /\ MyMarker(p) \in DOMAIN fs'
              /\ fs'[MyMarker(p)].kind = "file"
              /\ fs'[MyMarker(p)].by = p]_vars

\* A process has returned success and the marker is the one it created, while
\* another process sleeps inside LockCacheFile on that marker.
C5_Witness ==
    \E p, q \in Procs :
        /\ p # q
        /\ ret[p] = [op |-> "LockCacheFile", ok |-> TRUE, err |-> "nil"]
        /\ pc[p] = "idle"
        /\ pc[q] = "lock_sleep"
        /\ fs[Marker(<<"a">>)].by = p

(***************************************************************************)
(* C6. Release delay holds the lock: while a holder is in the delay of     *)
(* UnlockCacheFile(name, d) the marker is present before and after every   *)
(* step, and no other process's LockCacheFile(name) returns success; the   *)
(* marker is removed only after the delay.                                 *)
(***************************************************************************)
C6_DelayHoldsLock ==
    [][\A p \in Procs :
          (pc[p] = "unlock_sleep") =>
              /\ MyMarker(p) \in DOMAIN fs
              /\ MyMarker(p) \in DOMAIN fs'
              /\ \A q \in Procs \ {p} :
                    ~(LockSucceeds(q) /\ MyMarker(q) = MyMarker(p))]_vars

\* A process is in the delay of its release while another one waits in
\* LockCacheFile for the same marker.
C6_Witness ==
    \E p, q \in Procs :
        /\ p # q
        /\ pc[p] = "unlock_sleep"
        /\ InLock(q) /\ pc[q] = "lock_check" /\ MyMarker(q) = MyMarker(p)

(***************************************************************************)
(* C3. Per-caller liveness, as claimed: every invocation of                *)
(* LockCacheFile(name) eventually returns, also when other processes keep  *)
(* re-acquiring and releasing the same name.                               *)
(***************************************************************************)
C3_EveryCallReturns ==
    \A p \in Procs : InLock(p) ~> ~InLock(p)

(***************************************************************************)
(* C3, amended. Every invocation of LockCacheFile(name) eventually         *)
(* returns unless other processes acquire the lock again and again         *)
(* forever: a waiter can be overtaken at every release.                    *)
(***************************************************************************)
C3_ReturnsUnlessOvertakenForever ==
    \A p \in Procs :
        \/ InLock(p) ~> ~InLock(p)
        \/ []<>(\E q \in Procs \ {p} : pc[q] = "lock_close")

\* A caller sleeps inside LockCacheFile while another process holds the lock.
C3_Witness ==
    \E p, q \in Procs :
        /\ p # q
        /\ InLock(p) /\ pc[p] = "lock_sleep"
        /\ InCritical(q, MyMarker(p))
        /\ pc[q] = "idle"
        /\ timeout[q] = NoTimeout
        /\ faults = MaxFaults

(***************************************************************************)
(* C4. System-wide progress: whenever some process is inside               *)
(* LockCacheFile(name), eventually some process is at the point where      *)
(* LockCacheFile returns success.                                          *)
(***************************************************************************)
C4_Progress ==
    (\E p \in Procs : InLock(p)) ~> (\E q \in Procs : pc[q] = "lock_close")

\* The marker is absent and two processes are inside LockCacheFile, both past
\* the existence check.
C4_Witness ==
    /\ Marker(<<"a">>) \notin DOMAIN fs
    /\ \A p \in Procs : InLock(p)
    /\ \E p, q \in Procs : p # q /\ pc[p] = "open_file" /\ pc[q] = "open_file"
    /\ faults = MaxFaults

(***************************************************************************)
(* C7. Release without a held lock fails: when the remove step of          *)
(* UnlockCacheFile(name) finds no marker for name, the call returns        *)
(* (false, error) and the filesystem is unchanged; the delay phase of the  *)
(* call changes nothing either.                                            *)
(***************************************************************************)
C7_UnlockWithoutMarkerFails ==
    [][\A p \in Procs :
          /\ (pc[p] = "unlock_remove" /\ pc'[p] = "idle" /\ ~Exists(MyMarker(p))) =>
                /\ ret'[p].op = "UnlockCacheFile"
                /\ ret'[p].ok = FALSE
                /\ ret'[p].err # "nil"
                /\ fs' = fs
          /\ (pc[p] = "unlock_sleep" /\ timeout'[p] # timeout[p]) => fs' = fs]_vars

\* A second release of the same lock has failed: one process's release
\* succeeded, the other's found the marker gone.
C7_Witness ==
    \E p, q \in Procs :
        /\ p # q
        /\ ret[p] = [op |-> "UnlockCacheFile", ok |-> TRUE, err |-> "nil"]
        /\ ret[q] = [op |-> "UnlockCacheFile", ok |-> FALSE, err |-> "ENOENT"]
        /\ ~Exists(Marker(<<"a">>))

(***************************************************************************)
(* C8. Reserved-name rejection by the entry store, as claimed: a call of   *)
(* OpenCacheFile, CheckCacheFile or RemoveCacheFile with a name ending in  *)
(* "/lock" takes no step other than returning InvalidCacheFileName, with   *)
(* the filesystem neither consulted nor changed.                           *)
(***************************************************************************)
StoreOps == {"OpenCacheFile", "CheckCacheFile", "RemoveCacheFile"}

C8_StoreRejectsReservedNames ==
    [][\A p \in Procs :
          (/\ op[p] \in StoreOps
           /\ isReservedName(name[p]) # "nil"
           /\ pc[p] # "idle"
           /\ pc'[p] # pc[p]) =>
              /\ pc'[p] = "idle"
              /\ ret'[p].ok = FALSE
              /\ ret'[p].err = "InvalidCacheFileName"
              /\ fs' = fs]_vars

(***************************************************************************)
(* C9. Reserved-name rejection by the lock manager, as claimed: no marker  *)
(* ever exists under a name ending in "/lock", and no call of              *)
(* LockCacheFile or UnlockCacheFile with such a name gets as far as the    *)
(* point of returning success.                                             *)
(***************************************************************************)
C9_LockRejectsReservedNames ==
    /\ \A n \in FreeNames : isReservedName(n) # "nil" => ~Exists(Marker(n))
    /\ \A p \in Procs :
          (op[p] \in {"LockCacheFile", "UnlockCacheFile"} /\ isReservedName(name[p]) # "nil")
              => pc[p] # "lock_close"

(***************************************************************************)
(* C10. Round-trip fidelity, as claimed: OpenCacheFile(name) -> Write(b)   *)
(* -> Close followed by OpenCacheFile(name) -> ReadAll returns exactly b,  *)
(* whatever the entry held before.                                         *)
(***************************************************************************)
\* This step is the ReadAll that ends such a sequence of p: the file was not
\* written or removed since p's Write(b) at offset 0 and its Close, and the
\* handle is freshly opened on the same file.
ReadsBack(p) ==
    /\ ReadAll(p)
    /\ lastPut[p].valid
    /\ lastPut[p].closed
    /\ handle[p].path = lastPut[p].path
    /\ handle[p].off = 0
    /\ ~handle[p].unlinked

C10_RoundTrip ==
    [][\A p \in Procs : ReadsBack(p) => got'[p] = lastPut[p].data]_vars

(***************************************************************************)
(* C10, amended. The round trip returns exactly b when the entry was       *)
(* absent, empty, or held content no longer than b before the write.       *)
(***************************************************************************)
C10_RoundTripNoLongerPrior ==
    [][\A p \in Procs :
          (ReadsBack(p) /\ lastPut[p].prior <= Len(lastPut[p].data))
              => got'[p] = lastPut[p].data]_vars

\* A two-byte payload was written over a one-byte entry and read back.
C10_Witness ==
    \E p \in Procs :
        /\ ret[p].op = "ReadAll"
        /\ lastPut[p].valid /\ lastPut[p].closed
        /\ lastPut[p].prior = 1
        /\ lastPut[p].data = <<"y", "z">>
        /\ got[p] = <<"y", "z">>
        /\ handle[p].open /\ handle[p].path = lastPut[p].path

(***************************************************************************)
(* C11. Remove/Exists sequencing.  Barring an I/O fault in the call        *)
(* itself: RemoveCacheFile(name) on a valid name succeeds exactly when the *)
(* entry exists at its remove step, and then the entry is gone; when it    *)
(* fails the filesystem is unchanged.  CheckCacheFile(name) on a valid     *)
(* name returns (true, nil) when the entry exists and (false, nil) when    *)
(* it does not.  An entry comes into existence only by the create of an    *)
(* OpenCacheFile on it and goes out of existence only by a                 *)
(* RemoveCacheFile on it, and a successful OpenCacheFile leaves the entry  *)
(* in existence: so Check is false from a successful Remove until the      *)
(* next Open, and true after a successful Open.                            *)
(***************************************************************************)
ValidStoreNames == {n \in StoreNames : isReservedName(n) = "nil"}

C11_RemoveCheckSequencing ==
    [][/\ \A p \in Procs :
            /\ (pc[p] = "remove_file" /\ pc'[p] = "idle" /\ faults' = faults) =>
                  /\ ret'[p].ok <=> IsFile(MyMarker(p))
                  /\ ret'[p].ok => (ret'[p].err = "nil" /\ MyMarker(p) \notin DOMAIN fs')
                  /\ ~ret'[p].ok => (ret'[p].err # "nil" /\ fs' = fs)
            /\ (/\ pc[p] = "check_stat" /\ pc'[p] = "idle" /\ faults' = faults
                /\ isReservedName(name[p]) = "nil") =>
                  /\ ret'[p].ok <=> IsFile(MyMarker(p))
                  /\ ret'[p].err = "nil"
            /\ (/\ op[p] = "OpenCacheFile" /\ pc[p] # "idle" /\ pc'[p] = "idle"
                /\ ret'[p].err = "nil") =>
                  (MyMarker(p) \in DOMAIN fs' /\ fs'[MyMarker(p)].kind = "file")
       /\ \A n \in ValidStoreNames :
            /\ (~Exists(Entry(n)) /\ Entry(n) \in DOMAIN fs') =>
                  \E p \in Procs : /\ op[p] = "OpenCacheFile" /\ pc[p] = "open_file"
                                   /\ MyMarker(p) = Entry(n)
            /\ (Exists(Entry(n)) /\ Entry(n) \notin DOMAIN fs') =>
                  \E p \in Procs : /\ op[p] = "RemoveCacheFile" /\ pc[p] = "remove_file"
                                   /\ MyMarker(p) = Entry(n)]_vars

\* An entry was opened, then removed while the handle was still open, and the
\* CheckCacheFile that followed returned (false, nil).
C11_Witness ==
    \E p \in Procs :
        /\ handle[p].open /\ handle[p].unlinked /\ handle[p].path = Entry(<<"a">>)
        /\ ret[p] = [op |-> "CheckCacheFile", ok |-> FALSE, err |-> "nil"]
        /\ ~Exists(Entry(<<"a">>))

(***************************************************************************)
(* C12. Independence of lock names, as claimed: whatever happens to the    *)
(* lock of another name, also one that is a path prefix or an extension,   *)
(* whenever some process is inside LockCacheFile(n) eventually some        *)
(* process is at the point where LockCacheFile(n) returns success          *)
(* (holders release, no filesystem faults).                                *)
(***************************************************************************)
C12_IndependentNames ==
    \A n \in NestNames :
        (\E p \in Procs : InLock(p) /\ MyMarker(p) = Marker(n))
            ~> (\E q \in Procs : pc[q] = "lock_close" /\ MyMarker(q) = Marker(n))

(***************************************************************************)
(* C13. Reserved final segment, as claimed: a call of OpenCacheFile or     *)
(* RemoveCacheFile with a name whose final path segment is "lock" ("lock", *)
(* "/lock", "x/lock") takes no step other than returning                   *)
(* InvalidCacheFileName, with the filesystem neither consulted nor         *)
(* changed.                                                                *)
(***************************************************************************)
FinalSegment(n) ==
    LET c == SplitFrom(n, <<>>, <<>>) IN IF c = <<>> THEN <<>> ELSE c[Len(c)]

FinalSegmentIsLock(n) == FinalSegment(n) = <<"l", "o", "c", "k">>

C13_FinalSegmentLockRejected ==
    [][\A p \in Procs :
          (/\ op[p] \in {"OpenCacheFile", "RemoveCacheFile"}
           /\ FinalSegmentIsLock(name[p])
           /\ pc[p] # "idle"
           /\ pc'[p] # pc[p]) =>
              /\ pc'[p] = "idle"
              /\ ret'[p].ok = FALSE
              /\ ret'[p].err = "InvalidCacheFileName"
              /\ fs' = fs]_vars

(***************************************************************************)
(* C14. Contention is invisible to the caller: when the existence check of *)
(* LockCacheFile finds the marker it sleeps and retries; when the          *)
(* exclusive create finds the marker (lost race) it goes back to the       *)
(* existence check; and whenever LockCacheFile returns an error, the error *)
(* is a filesystem fault of the step that returns, never "already exists". *)
(***************************************************************************)
C14_ContentionInvisible ==
    [][\A p \in Procs :
          InLock(p) =>
              /\ (pc[p] = "lock_check" /\ Exists(MyMarker(p)) /\ faults' = faults
                        /\ pc'[p] # pc[p])
                    => pc'[p] = "lock_sleep"
              /\ (pc[p] = "open_file" /\ Exists(MyMarker(p)) /\ faults' = faults
                        /\ pc'[p] # pc[p])
                    => (pc'[p] = "lock_check" /\ fs' = fs)
              /\ (pc'[p] = "idle" /\ ~ret'[p].ok)
                    => /\ ret'[p].err \notin {"nil", "EEXIST"}
                       /\ faults' = faults + 1]_vars

\* A process lost the create race: its exclusive create failed with "already
\* exists" and it is back at the existence check, the winner holding the lock.
C14_Witness ==
    \E p, q \in Procs :
        /\ p # q
        /\ InLock(p) /\ pc[p] = "lock_check" /\ err[p] = "EEXIST"
        /\ InCritical(q, MyMarker(p))

(***************************************************************************)
(* C15. Faults abort acquisition: when a fault strikes the existence check *)
(* of LockCacheFile (cache.go:64), the existence check of open             *)
(* (cache.go:147), the directory creation or the exclusive create, the     *)
(* call returns (false, err) in that very step, with the filesystem        *)
(* unchanged; and whenever LockCacheFile returns an error, no marker       *)
(* created by the caller exists and the caller holds nothing more than     *)
(* before.                                                                 *)
(***************************************************************************)
FaultSteps == {"lock_check", "open_exist", "open_mkdir", "open_file"}

C15_FaultsAbort ==
    [][\A p \in Procs :
          InLock(p) =>
              /\ (pc[p] \in FaultSteps /\ pc'[p] # pc[p] /\ faults' = faults + 1)
                    => /\ pc'[p] = "idle"
                       /\ ret'[p] = [op |-> "LockCacheFile", ok |-> FALSE, err |-> "EIO"]
                       /\ fs' = fs
              /\ (pc'[p] = "idle" /\ ~ret'[p].ok)
                    => /\ ret'[p].err # "nil"
                       /\ fs' = fs
                       /\ holds' = holds
                       /\ MyMarker(p) \in DOMAIN fs' => fs'[MyMarker(p)].by # p]_vars

\* A LockCacheFile has returned a fault while another process holds the lock,
\* whose marker is still there.
C15_Witness ==
    \E p, q \in Procs :
        /\ p # q
        /\ ret[p] = [op |-> "LockCacheFile", ok |-> FALSE, err |-> "EIO"]
        /\ InCritical(q, Marker(<<"a">>))
        /\ Marker(<<"a">>) \in DOMAIN fs /\ fs[Marker(<<"a">>)].by = q

(***************************************************************************)
(* C16. Three-way existence result: CheckCacheFile returns (true, nil)     *)
(* exactly when its stat finds the entry, (false, nil) exactly when the    *)
(* stat reports that nothing is there, and (false, err) exactly when the   *)
(* stat fails for any other reason (an I/O fault, a path component that is *)
(* not a directory); it never changes the filesystem.                      *)
(***************************************************************************)
C16_ThreeWayExistence ==
    [][\A p \in Procs :
          (pc[p] = "check_stat" /\ pc'[p] = "idle") =>
              LET fault == faults' # faults
                  e == StatErr(MyMarker(p))
              IN /\ ret'[p].op = "CheckCacheFile"
                 /\ (ret'[p].ok /\ ret'[p].err = "nil") <=> (~fault /\ Exists(MyMarker(p)))
                 /\ (~ret'[p].ok /\ ret'[p].err = "nil") <=> (~fault /\ e = "ENOENT")
                 /\ (~ret'[p].ok /\ ret'[p].err # "nil") <=> (fault \/ e = "ENOTDIR")
                 /\ fs' = fs]_vars

\* The third outcome: the entry "a" exists, and a CheckCacheFile whose stat
\* failed has returned the error, not "absent".
C16_Witness ==
    \E p \in Procs :
        /\ ret[p] = [op |-> "CheckCacheFile", ok |-> FALSE, err |-> "EIO"]
        /\ IsFile(Entry(<<"a">>))

(***************************************************************************)
(* C17. Anonymous release: when the remove step of UnlockCacheFile(name)   *)
(* finds the marker of name, it removes it and the call returns            *)
(* (true, nil), whichever process created the marker and whether or not    *)
(* the caller ever acquired the lock (barring an I/O fault in the step).   *)
(***************************************************************************)
C17_AnonymousRelease ==
    [][\A p \in Procs :
          (/\ pc[p] = "unlock_remove" /\ pc'[p] = "idle"
           /\ Exists(MyMarker(p)) /\ faults' = faults) =>
              /\ ret'[p] = [op |-> "UnlockCacheFile", ok |-> TRUE, err |-> "nil"]
              /\ MyMarker(p) \notin DOMAIN fs']_vars

\* The consequence: two processes are in their critical sections at once.  The
\* marker of the first was removed by a process that did not hold the lock,
\* and the second then acquired it.
C17_Witness ==
    \E p, q \in Procs :
        /\ p # q
        /\ InCritical(p, Marker(<<"a">>))
        /\ InCritical(q, Marker(<<"a">>))
        /\ fs[Marker(<<"a">>)].by = q
        /\ ret[q] = [op |-> "LockCacheFile", ok |-> TRUE, err |-> "nil"]

(***************************************************************************)
(* C18. Leading-slash normalization, as claimed: a call with a name that   *)
(* carries leading slashes does what the same call does with the stripped  *)
(* name: it is rejected exactly when the stripped name is rejected, and    *)
(* otherwise works on the stripped name's cache entry or lock marker.      *)
(***************************************************************************)
C18_LeadingSlashesIgnored ==
    [][\A p \in Procs :
          /\ (pc[p] \in {"open_reserved", "remove_reserved"} /\ pc'[p] # pc[p]) =>
                /\ (pc'[p] = "idle") <=> (isReservedName(stripLeftSlash(name[p])) # "nil")
                /\ (pc'[p] # "idle") =>
                      Resolve(path'[p]) = Entry(stripLeftSlash(name[p]))
          /\ (pc[p] = "idle" /\ op'[p] = "CheckCacheFile") =>
                Resolve(path'[p]) = Entry(stripLeftSlash(name'[p]))
          /\ (pc[p] = "idle" /\ op'[p] \in {"LockCacheFile", "UnlockCacheFile"}) =>
                Resolve(path'[p]) = Marker(stripLeftSlash(name'[p]))]_vars

(***************************************************************************)
(* C19. Separation of cache entries and lock markers, as claimed: no step  *)
(* of an OpenCacheFile, CheckCacheFile or RemoveCacheFile call whose name  *)
(* the entry store accepts creates or removes the marker of a lock name.   *)
(***************************************************************************)
C19_StoreLeavesMarkersAlone ==
    [][\A p \in Procs :
          (/\ op[p] \in StoreOps
           /\ isReservedName(name[p]) = "nil"
           /\ pc'[p] # pc[p]) =>
              \A n \in LockNames :
                  (Marker(n) \in DOMAIN fs) <=> (Marker(n) \in DOMAIN fs')]_vars

(***************************************************************************)
(* C20. Marker lifetime: a marker goes out of existence only in the remove *)
(* step of an UnlockCacheFile on its name; no step of a LockCacheFile      *)
(* removes anything from the filesystem; while a process holds the lock    *)
(* (it has not released) no other LockCacheFile on that name returns,      *)
(* unless a filesystem fault strikes its own step; and the marker of a     *)
(* holder is present before and after every step that is not its release. *)
(***************************************************************************)
C20_MarkerLifetime ==
    [][/\ \A m \in Markers :
            (Exists(m) /\ m \notin DOMAIN fs') =>
                \E q \in Procs : /\ op[q] = "UnlockCacheFile" /\ pc[q] = "unlock_remove"
                                 /\ MyMarker(q) = m /\ pc'[q] = "idle"
       /\ \A p \in Procs :
            InLock(p) =>
                /\ (pc'[p] # pc[p]) => (DOMAIN fs \subseteq DOMAIN fs')
                /\ (/\ \E q \in Procs \ {p} : InCritical(q, MyMarker(p))
                    /\ faults' = faults)
                      => pc'[p] # "idle"
       /\ \A q \in Procs : \A m \in Markers :
            (InCritical(q, m) /\ m \in holds'[q]) => (Exists(m) /\ m \in DOMAIN fs')]_vars

\* A holder is in its critical section on the marker it created, and another
\* process, having found the marker, naps inside LockCacheFile.
C20_Witness ==
    \E p, q \in Procs :
        /\ p # q
        /\ InCritical(q, Marker(<<"a">>)) /\ pc[q] = "idle"
        /\ ret[q] = [op |-> "LockCacheFile", ok |-> TRUE, err |-> "nil"]
        /\ fs[Marker(<<"a">>)].by = q
        /\ InLock(p) /\ pc[p] = "lock_sleep" /\ ok[p] = TRUE
        /\ faults = 0

====
